---- MODULE Spec2Model ----
(***************************************************************************)
(* sndbot: the Blizzard API client (token cache, character / guild /       *)
(* roster lookups) run by concurrently dispatched message handlers, the    *)
(* '!register' handler with updateMemberRoles, and the slug conversion.    *)
(*                                                                         *)
(* Strings of the program are sequences of one-character strings.          *)
(* Times are seconds.  A token value is the number of the exchange that    *)
(* minted it; 0 is the empty string.                                       *)
(***************************************************************************)
EXTENDS Integers, Sequences, FiniteSets, TLC

\* ---------------------------------------------------------------- bounds
MaxLen == 4
NThreads == 2
MaxTicks == 2
MaxExchanges == 2

\* ------------------------------------------------------ program constants
Margin == 60
StandAndDeliverID == 70395110
StatusOK == 200
StatusNotFound == 404
UnknownRank == -1

Threads == 1..NThreads
TickStep == Margin

\* ---------------------------------------------------------------- strings
Empty == <<>>

IsSpace(c) == c \in {" ", "\t"}

RECURSIVE TrimLeft(_)
TrimLeft(s) ==
  IF s = Empty THEN Empty
  ELSE IF IsSpace(Head(s)) THEN TrimLeft(Tail(s)) ELSE s

RECURSIVE TrimRight(_)
TrimRight(s) ==
  IF s = Empty THEN Empty
  ELSE IF IsSpace(s[Len(s)]) THEN TrimRight(SubSeq(s, 1, Len(s) - 1)) ELSE s

\* strings.TrimSpace
TrimSpace(s) == TrimRight(TrimLeft(s))

\* strings.Replace(s, " ", "-", 1): the first blank only
ReplaceAll_FirstOnly(s) ==
  [i \in 1..Len(s) |->
     IF s[i] = " " /\ (\A j \in 1..(i - 1) : s[j] # " ") THEN "-" ELSE s[i]]

\* strings.ReplaceAll(s, " ", "-")
ReplaceAll(s) == [i \in 1..Len(s) |-> IF s[i] = " " THEN "-" ELSE s[i]]

LowerChar(c) ==
  CASE c = "A" -> "a"
    [] c = "B" -> "b"
    [] c = "S" -> "s"
    [] c = "D" -> "d"
    [] OTHER -> c

\* strings.ToLower
ToLower(s) == [i \in 1..Len(s) |-> LowerChar(s[i])]

\* strings.ToLower(strings.ReplaceAll(strings.TrimSpace(x), " ", "-"))
Slug(s) == ToLower(ReplaceAll(TrimSpace(s)))

\* strings.ToLower(strings.TrimSpace(characterName))
NameLower(s) == ToLower(TrimSpace(s))

\* the characters of the strings converted: blank, tab, hyphen, an
\* upper-case and a lower-case letter
Alphabet == {" ", "\t", "-", "A", "b"}

\* the strings of at most MaxLen characters
Strings == UNION {[1..n -> Alphabet] : n \in 0..MaxLen}

\* no string is being converted
NoString == [pc |-> "none", s |-> Empty, once |-> Empty, twice |-> Empty]

\* ----------------------------------------------------------------- errors
NoErr == [kind |-> "nil", status |-> 0]
Err(k) == [kind |-> k, status |-> 0]
\* fmt.Errorf("API request failed with status %d", resp.StatusCode)
ApiErr(s) == [kind |-> "api", status |-> s]

\* ------------------------------------------------------------------ data
\* the zero blizzard.Guild
NoGuild ==
  [name |-> Empty, id |-> 0, realmName |-> Empty, realmSlug |-> Empty,
   faction |-> Empty]
NilGuild == [nil |-> TRUE, v |-> NoGuild]
SomeGuild(g) == [nil |-> FALSE, v |-> g]

NoMember == [name |-> Empty, rank |-> 0]
NilMember == [nil |-> TRUE, v |-> NoMember]
SomeMember(m) == [nil |-> FALSE, v |-> m]

NoInfo == [name |-> Empty, rank |-> 0, faction |-> Empty]
NilInfo == [nil |-> TRUE, v |-> NoInfo]
SomeInfo(i) == [nil |-> FALSE, v |-> i]

\* --------------------------------------------------- the remote services
Is2xx(s) == s >= 200 /\ s < 300

\* provider-declared lifetimes (expires_in)
Lifetimes == {0, Margin, 3 * Margin}

\* what client.Do / io.ReadAll / the body give for POST /oauth/token when
\* the provider would mint token k
TokenOutcomes(k) ==
  {[kind |-> kd, status |-> 0, json |-> FALSE, access_token |-> 0,
    expires_in |-> 0] : kd \in {"transport", "read"}}
  \cup
  \* a body that is not JSON, and a JSON body without the token fields
  {[kind |-> "resp", status |-> s, json |-> j, access_token |-> 0,
    expires_in |-> 0] : s \in {StatusOK, 401}, j \in BOOLEAN}
  \cup
  {[kind |-> "resp", status |-> StatusOK, json |-> TRUE, access_token |-> k,
    expires_in |-> l] : l \in Lifetimes}

SnDName == <<"S", " ", "D">>
Alliance == <<"A">>

GuildBodies ==
  { [name |-> SnDName, id |-> StandAndDeliverID, realmName |-> <<"A", "b">>,
     realmSlug |-> <<"a", "b">>, faction |-> Alliance],
    [name |-> SnDName, id |-> 12345, realmName |-> <<"A", " ", "b">>,
     realmSlug |-> Empty, faction |-> Alliance],
    [name |-> <<"B">>, id |-> StandAndDeliverID, realmName |-> <<"A", "b">>,
     realmSlug |-> <<"a", "b">>, faction |-> Empty],
    [name |-> Empty, id |-> StandAndDeliverID, realmName |-> Empty,
     realmSlug |-> Empty, faction |-> Empty],
    NoGuild }

\* GET /profile/wow/character/{realmSlug}/{characterNameLower}
ProfileOutcomes ==
  {[kind |-> kd, status |-> 0, json |-> FALSE, guild |-> NoGuild] :
     kd \in {"transport", "read"}}
  \cup
  {[kind |-> "resp", status |-> s, json |-> FALSE, guild |-> NoGuild] :
     s \in {StatusOK, StatusNotFound, 403, 500}}
  \cup
  {[kind |-> "resp", status |-> StatusOK, json |-> TRUE, guild |-> g] :
     g \in GuildBodies}

Rosters ==
  { <<>>,
    <<[name |-> <<"a", "b">>, rank |-> 1], [name |-> <<"A", "B">>, rank |-> 2]>>,
    <<[name |-> <<"b">>, rank |-> 0], [name |-> <<"A", "b">>, rank |-> 5]>> }

\* GET /data/wow/guild/{realmSlug}/{guildSlug}/roster
RosterOutcomes ==
  {[kind |-> kd, status |-> 0, json |-> FALSE, members |-> <<>>] :
     kd \in {"transport", "read"}}
  \cup
  {[kind |-> "resp", status |-> s, json |-> FALSE, members |-> <<>>] :
     s \in {StatusOK, StatusNotFound, 500}}
  \cup
  {[kind |-> "resp", status |-> StatusOK, json |-> TRUE, members |-> r] :
     r \in Rosters}

NoTokenOutcome ==
  [kind |-> "none", status |-> 0, json |-> FALSE, access_token |-> 0,
   expires_in |-> 0]
NoProfileOutcome ==
  [kind |-> "none", status |-> 0, json |-> FALSE, guild |-> NoGuild]
NoRosterOutcome ==
  [kind |-> "none", status |-> 0, json |-> FALSE, members |-> <<>>]

\* ------------------------------------------------------- getAccessToken
\* TokenUsable with the safety margin taken a second time at the check
TokenUsable_MarginTwice(tok, expiry, t) == tok # 0 /\ t + Margin < expiry

\* c.accessToken != "" && time.Now().Before(c.tokenExpiry)
TokenUsable(tok, expiry, t) == tok # 0 /\ t < expiry

\* the error getAccessToken returns for an exchange outcome (nil: none)
ExchangeErr(o) ==
  IF o.kind = "transport" THEN Err("token_transport")
  ELSE IF o.kind = "read" THEN Err("token_read")
  ELSE IF ~o.json THEN Err("token_parse")
  ELSE NoErr

\* time.Now().Add(time.Duration(token.ExpiresIn-60) * time.Second)
\* the expiry without the safety margin
NewExpiry_NoMargin(t, expiresIn) == t + expiresIn

NewExpiry(t, expiresIn) == t + (expiresIn - Margin)

\* ---------------------------------------------------- GetCharacterGuild
\* realmSlug == "" || characterNameLower == ""
\* GetCharacterGuild refusing every input
InvalidInput_Always(characterName, realm) == TRUE

InvalidInput(characterName, realm) ==
  Slug(realm) = Empty \/ NameLower(characterName) = Empty

\* CharacterGuildResult without the 404 case: 404 is one more failed status
CharacterGuildResult_No404(o) ==
  IF o.kind = "transport" THEN [guild |-> NilGuild, err |-> Err("transport")]
  ELSE IF o.kind = "read" THEN [guild |-> NilGuild, err |-> Err("read")]
  ELSE IF o.status # StatusOK
    THEN [guild |-> NilGuild, err |-> ApiErr(o.status)]
  ELSE IF ~o.json THEN [guild |-> NilGuild, err |-> Err("parse")]
  ELSE IF o.guild.name = Empty THEN [guild |-> NilGuild, err |-> NoErr]
  ELSE [guild |-> SomeGuild(o.guild), err |-> NoErr]

\* CharacterGuildResult with every status but 200 taken for "not found"
CharacterGuildResult_NonOKAbsent(o) ==
  IF o.kind = "transport" THEN [guild |-> NilGuild, err |-> Err("transport")]
  ELSE IF o.kind = "read" THEN [guild |-> NilGuild, err |-> Err("read")]
  ELSE IF o.status # StatusOK THEN [guild |-> NilGuild, err |-> NoErr]
  ELSE IF ~o.json THEN [guild |-> NilGuild, err |-> Err("parse")]
  ELSE IF o.guild.name = Empty THEN [guild |-> NilGuild, err |-> NoErr]
  ELSE [guild |-> SomeGuild(o.guild), err |-> NoErr]

\* what GetCharacterGuild returns for the profile request's outcome
\* CharacterGuildResult returning the guild whatever its name
CharacterGuildResult_EmptyNameKept(o) ==
  IF o.kind = "transport" THEN [guild |-> NilGuild, err |-> Err("transport")]
  ELSE IF o.kind = "read" THEN [guild |-> NilGuild, err |-> Err("read")]
  ELSE IF o.status = StatusNotFound THEN [guild |-> NilGuild, err |-> NoErr]
  ELSE IF o.status # StatusOK
    THEN [guild |-> NilGuild, err |-> ApiErr(o.status)]
  ELSE IF ~o.json THEN [guild |-> NilGuild, err |-> Err("parse")]
  ELSE [guild |-> SomeGuild(o.guild), err |-> NoErr]

CharacterGuildResult(o) ==
  IF o.kind = "transport" THEN [guild |-> NilGuild, err |-> Err("transport")]
  ELSE IF o.kind = "read" THEN [guild |-> NilGuild, err |-> Err("read")]
  ELSE IF o.status = StatusNotFound THEN [guild |-> NilGuild, err |-> NoErr]
  ELSE IF o.status # StatusOK
    THEN [guild |-> NilGuild, err |-> ApiErr(o.status)]
  ELSE IF ~o.json THEN [guild |-> NilGuild, err |-> Err("parse")]
  ELSE IF o.guild.name = Empty THEN [guild |-> NilGuild, err |-> NoErr]
  ELSE [guild |-> SomeGuild(o.guild), err |-> NoErr]

\* --------------------------------------------------- GetGuildMemberInfo
\* the first roster entry whose lower-cased name is the lower-cased
\* characterName (the name is not trimmed here)
\* the last roster entry of that name
FindMember_Last(characterName, members) ==
  LET M == {i \in 1..Len(members) :
              ToLower(members[i].name) = ToLower(characterName)}
  IN IF M = {} THEN NilMember
     ELSE SomeMember(members[CHOOSE i \in M : \A j \in M : j <= i])

RECURSIVE FindMember(_, _)
FindMember(characterName, members) ==
  IF members = <<>> THEN NilMember
  ELSE IF ToLower(Head(members).name) = ToLower(characterName)
    THEN SomeMember(Head(members))
  ELSE FindMember(characterName, Tail(members))

\* GetGuildMemberInfo with one error for every status that is not 200
GuildMemberResult_NoNotFound(characterName, o) ==
  IF o.kind = "transport" THEN [member |-> NilMember, err |-> Err("transport")]
  ELSE IF o.kind = "read" THEN [member |-> NilMember, err |-> Err("read")]
  ELSE IF o.status # StatusOK
    THEN [member |-> NilMember, err |-> ApiErr(0)]
  ELSE IF ~o.json THEN [member |-> NilMember, err |-> Err("parse")]
  ELSE [member |-> FindMember(characterName, o.members), err |-> NoErr]

GuildMemberResult(characterName, o) ==
  IF o.kind = "transport" THEN [member |-> NilMember, err |-> Err("transport")]
  ELSE IF o.kind = "read" THEN [member |-> NilMember, err |-> Err("read")]
  ELSE IF o.status # StatusOK
    THEN IF o.status = StatusNotFound
           THEN [member |-> NilMember, err |-> Err("guild_not_found")]
           ELSE [member |-> NilMember, err |-> ApiErr(o.status)]
  ELSE IF ~o.json THEN [member |-> NilMember, err |-> Err("parse")]
  ELSE [member |-> FindMember(characterName, o.members), err |-> NoErr]

\* --------------------------------------------------------- GetGuildInfo
\* guild.Realm.Slug as the API gave it
GuildRealmSlug_NoFallback(g) == g.realmSlug

\* guild.Realm.Slug, or the slug of guild.Realm.Name when it is empty
GuildRealmSlug(g) ==
  IF g.realmSlug = Empty THEN Slug(g.realmName) ELSE g.realmSlug

\* GetGuildInfo giving up when the membership lookup failed
GuildInfoResult_NilOnError(g, member, err) ==
  IF err # NoErr THEN NilInfo
  ELSE SomeInfo([name |-> g.name,
                 rank |-> IF member.nil THEN UnknownRank ELSE member.v.rank,
                 faction |-> g.faction])

\* GetGuildInfo's return once GetGuildMemberInfo returned (member, err)
GuildInfoResult(g, member, err) ==
  IF err # NoErr
    THEN SomeInfo([name |-> g.name, rank |-> UnknownRank, faction |-> g.faction])
  ELSE SomeInfo([name |-> g.name,
                 rank |-> IF member.nil THEN UnknownRank ELSE member.v.rank,
                 faction |-> g.faction])

\* GetGuildInfo handing the error of GetGuildMemberInfo to its caller
GuildInfoErr_Passed(err) == err

\* the error GetGuildInfo returns once GetGuildMemberInfo returned err:
\* nil, with or without the rank
GuildInfoErr(err) == NoErr

\* ------------------------------------------- the operations of the client
\* CharacterExists and IsCharacterInGuild are methods the bot calls through
\* the BlizzardAPI interface.
\* IsCharacterInGuildResult comparing the guild's name, not its id
IsCharacterInGuildResult_ByName(g, err, guildID) ==
  IF err # NoErr THEN [flag |-> FALSE, err |-> err]
  ELSE IF g.nil THEN [flag |-> FALSE, err |-> NoErr]
  ELSE [flag |-> g.v.name = SnDName, err |-> NoErr]

IsCharacterInGuildResult(g, err, guildID) ==
  IF err # NoErr THEN [flag |-> FALSE, err |-> err]
  ELSE IF g.nil THEN [flag |-> FALSE, err |-> NoErr]
  ELSE [flag |-> g.v.id = guildID, err |-> NoErr]

CharacterExistsResult(o) ==
  IF o.kind = "transport" THEN [flag |-> FALSE, err |-> Err("transport")]
  ELSE IF o.kind = "read" THEN [flag |-> FALSE, err |-> Err("read")]
  ELSE IF o.status = StatusNotFound THEN [flag |-> FALSE, err |-> NoErr]
  ELSE IF ~Is2xx(o.status) THEN [flag |-> FALSE, err |-> ApiErr(o.status)]
  ELSE [flag |-> TRUE, err |-> NoErr]

Ops ==
  {"GetCharacterGuild", "GetGuildMemberInfo", "GetGuildInfo",
   "CharacterExists", "IsCharacterInGuild"}

\* the function whose body an operation enters first
FirstLeaf(o) ==
  CASE o = "GetGuildMemberInfo" -> "ggmi"
    [] o = "CharacterExists" -> "ce"
    [] OTHER -> "gcg"

\* arguments the handlers pass
NameInputs == {Empty, <<"A", "b">>}
RealmInputs == {<<" ">>, <<"A", " ", "b">>}
GuildIDInputs == {StandAndDeliverID, 12345}

VARIABLES
  accessToken,   \* c.accessToken (0: "")
  tokenExpiry,   \* c.tokenExpiry
  now,           \* time.Now()
  exchanges,     \* POST /oauth/token requests sent so far
  lastGrant,     \* the last exchange getAccessToken completed with success
  th,            \* the goroutines running client operations
  registrations, \* the characters table: username -> character, server
  admins,        \* the admins table: the usernames in it
  roles,         \* Discord: the roles each guild member holds
  cfg,           \* the configuration Initialize stored
  h,             \* the newMessage handler in progress
  sent,          \* the messages it has sent to the channel
  str            \* a string on its way through the slug conversion

clientVars == <<accessToken, tokenExpiry, now, exchanges, lastGrant, th>>
botVars == <<registrations, admins, roles, cfg, h, sent>>
vars == <<clientVars, botVars, str>>

\* ------------------------------------------------------ the bot's world
Users == {"u1", "u2"}
CommunityRole == "community"
\* config.Config: CommunityRoleID and the ordered GuildMemberRoleIDs
Policies ==
  { [community |-> CommunityRole, guildRoles |-> <<"g1", "g2">>],
    [community |-> CommunityRole, guildRoles |-> <<>>] }
\* the role sets members hold before the bot acts
InitialRoles == {{}, {"g2"}}
\* the words of a "!register <character_name> <server>" message
CharacterWords == {<<"A", "b">>, <<"b">>}
ServerWords == {<<"a", "b">>}

NoRegistration == [has |-> FALSE, character |-> Empty, server |-> Empty]

\* every role id of the configurations
AllRoles == {CommunityRole, "g1", "g2"}

\* no call of updateMemberRoles has returned yet
NoCall ==
  [valid |-> FALSE, user |-> "u1", exists |-> FALSE, isInGuild |-> FALSE,
   roleErr |-> "none", n |-> 0]

IdleHandler ==
  [pc |-> "idle", user |-> "u1", cmd |-> "none", character |-> Empty,
   server |-> Empty, chan |-> "none",
   tokErr |-> NoErr, profOut |-> NoProfileOutcome,
   guildTokErr |-> NoErr, guildOut |-> NoProfileOutcome,
   exists |-> FALSE, isInGuild |-> FALSE,
   memberOk |-> FALSE, member |-> {}, fail |-> "none",
   grants |-> <<>>, roleErr |-> "none", last |-> NoCall,
   wasAdmin |-> FALSE, wrote |-> FALSE,
   info |-> NilInfo, err |-> NoErr, rosErr |-> NoErr, flag |-> FALSE,
   target |-> "u1", prev |-> NoRegistration]

\* the zero time.Time lies before every time.Now()
ZeroTime == 0 - (Margin + 1)

IdleThread ==
  [pc |-> "idle", op |-> "none", cur |-> "none",
   name |-> Empty, realm |-> Empty, rslug |-> Empty, gname |-> Empty,
   gid |-> 0,
   tokOut |-> NoTokenOutcome, tokErr |-> NoErr, fresh |-> FALSE,
   sawLive |-> FALSE, ckTok |-> 0, ckExp |-> 0,
   bearer |-> 0, profOut |-> NoProfileOutcome, rosOut |-> NoRosterOutcome,
   guild |-> NilGuild, member |-> NilMember, info |-> NilInfo,
   flag |-> FALSE, err |-> NoErr,
   url |-> <<>>,
   nExch |-> 0, nProfile |-> 0, nRoster |-> 0]

\* NewBlizzardClient: no token, the zero expiry
ClientInit ==
  /\ accessToken = 0
  /\ tokenExpiry = ZeroTime
  /\ now = 0
  /\ exchanges = 0
  /\ lastGrant = [tok |-> 0, at |-> 0, life |-> 0, n |-> 0]
  /\ th = [t \in Threads |-> IdleThread]

\* the bot before a message arrives, with the configuration c
BotStart(c) ==
  /\ registrations = [u \in Users |-> NoRegistration]
  /\ cfg = c
  /\ h = IdleHandler
  /\ sent = <<>>

Init ==
  /\ ClientInit
  /\ str = NoString
  /\ admins = {}
  /\ BotStart([community |-> CommunityRole, guildRoles |-> <<"g1", "g2">>])
  /\ roles = [u \in Users |-> {}]

\* AfterCharacterGuild with GetGuildInfo's "guild == nil" return left out
AfterCharacterGuild_NoNilCheck(r, g, e) ==
  CASE r.op = "GetCharacterGuild" ->
         [r EXCEPT !.pc = "done", !.guild = g, !.err = e]
    [] r.op = "IsCharacterInGuild" ->
         [r EXCEPT !.pc = "done", !.guild = g,
                   !.flag = IsCharacterInGuildResult(g, e, r.gid).flag,
                   !.err = IsCharacterInGuildResult(g, e, r.gid).err]
    [] OTHER ->
         IF e # NoErr THEN [r EXCEPT !.pc = "done", !.guild = g, !.err = e]
         ELSE [r EXCEPT !.pc = "tok_check", !.cur = "ggmi", !.guild = g,
                        !.rslug = GuildRealmSlug(g.v), !.gname = g.v.name]

\* the goroutine's state once GetCharacterGuild returned (g, e)
AfterCharacterGuild(r, g, e) ==
  CASE r.op = "GetCharacterGuild" ->
         [r EXCEPT !.pc = "done", !.guild = g, !.err = e]
    [] r.op = "IsCharacterInGuild" ->
         [r EXCEPT !.pc = "done", !.guild = g,
                   !.flag = IsCharacterInGuildResult(g, e, r.gid).flag,
                   !.err = IsCharacterInGuildResult(g, e, r.gid).err]
    [] OTHER ->
         \* GetGuildInfo
         IF e # NoErr THEN [r EXCEPT !.pc = "done", !.guild = g, !.err = e]
         ELSE IF g.nil THEN [r EXCEPT !.pc = "done", !.guild = g]
         ELSE [r EXCEPT !.pc = "tok_check", !.cur = "ggmi", !.guild = g,
                        !.rslug = GuildRealmSlug(g.v), !.gname = g.v.name]

\* the goroutine's state once GetGuildMemberInfo returned (m, e)
AfterGuildMember(r, m, e) ==
  IF r.op = "GetGuildMemberInfo"
    THEN [r EXCEPT !.pc = "done", !.member = m, !.err = e]
  ELSE [r EXCEPT !.pc = "done", !.member = m,
                 !.info = GuildInfoResult(r.guild.v, m, e),
                 !.err = GuildInfoErr(e)]

\* the goroutine's state once the function it is in returned the error e
\* before sending its request
LeafFailed(r, e) ==
  CASE r.cur = "gcg" -> AfterCharacterGuild(r, NilGuild, e)
    [] r.cur = "ggmi" -> AfterGuildMember(r, NilMember, e)
    [] OTHER -> [r EXCEPT !.pc = "done", !.flag = FALSE, !.err = e]

\* A handler calls an operation of the client.
Call(t, o, n, rl, g) ==
  /\ th[t].pc = "idle"
  /\ LET r == [IdleThread EXCEPT
                 !.op = o, !.cur = FirstLeaf(o), !.name = n,
                 !.realm = IF o = "GetGuildMemberInfo" THEN Empty ELSE rl,
                 !.rslug = IF o = "GetGuildMemberInfo" THEN Slug(rl) ELSE Empty,
                 !.gname = IF o = "GetGuildMemberInfo" THEN SnDName ELSE Empty,
                 !.gid = IF o = "IsCharacterInGuild" THEN g ELSE 0]
     IN th' = [th EXCEPT ![t] =
                 IF o = "CharacterExists" /\ InvalidInput(n, rl)
                   THEN [r EXCEPT !.pc = "done", !.err = Err("validation")]
                 ELSE [r EXCEPT !.pc = "tok_check"]]
  /\ UNCHANGED <<accessToken, tokenExpiry, now, exchanges, lastGrant>>
  /\ UNCHANGED <<botVars, str>>

\* getAccessToken, up to the request: the cached token is returned, or the
\* exchange is sent.
TokCheck(t) ==
  /\ th[t].pc = "tok_check"
  /\ IF TokenUsable(accessToken, tokenExpiry, now)
       THEN /\ th' = [th EXCEPT ![t].pc = "send", ![t].fresh = TRUE,
                                ![t].sawLive = accessToken # 0 /\ now < tokenExpiry,
                                ![t].ckTok = accessToken,
                                ![t].ckExp = tokenExpiry,
                                ![t].tokErr = NoErr]
            /\ UNCHANGED exchanges
       ELSE /\ exchanges < MaxExchanges
            /\ exchanges' = exchanges + 1
            /\ th' = [th EXCEPT ![t].pc = "tok_exchange", ![t].fresh = FALSE,
                                ![t].sawLive = accessToken # 0 /\ now < tokenExpiry,
                                ![t].ckTok = accessToken,
                                ![t].ckExp = tokenExpiry,
                                ![t].nExch = @ + 1]
  /\ UNCHANGED <<accessToken, tokenExpiry, now, lastGrant>>
  /\ UNCHANGED <<botVars, str>>

\* getAccessToken, from client.Do's return to the write of c.accessToken
TokResponse(t, o) ==
  /\ th[t].pc = "tok_exchange"
  /\ IF ExchangeErr(o) # NoErr
       THEN /\ th' = [th EXCEPT ![t] =
                        LeafFailed([th[t] EXCEPT !.tokOut = o,
                                                 !.tokErr = ExchangeErr(o)],
                                   ExchangeErr(o))]
            /\ UNCHANGED accessToken
       ELSE /\ accessToken' = o.access_token
            /\ th' = [th EXCEPT ![t].pc = "tok_store", ![t].tokOut = o]
  /\ UNCHANGED <<tokenExpiry, now, exchanges, lastGrant>>
  /\ UNCHANGED <<botVars, str>>

\* getAccessToken, the write of c.tokenExpiry and the return
TokStore(t) ==
  /\ th[t].pc = "tok_store"
  /\ tokenExpiry' = NewExpiry(now, th[t].tokOut.expires_in)
  /\ lastGrant' = [tok |-> th[t].tokOut.access_token, at |-> now,
                   life |-> th[t].tokOut.expires_in, n |-> exchanges]
  /\ th' = [th EXCEPT ![t].pc = "send", ![t].tokErr = NoErr]
  /\ UNCHANGED <<accessToken, now, exchanges>>
  /\ UNCHANGED <<botVars, str>>

\* /profile/wow/character/{realmSlug}/{characterNameLower}
ProfilePath(characterName, realm) == <<Slug(realm), NameLower(characterName)>>

\* /data/wow/guild/{realmSlug}/{guildSlug}/roster
RosterPath(realmSlug, guildName) == <<realmSlug, Slug(guildName)>>

\* from getAccessToken's return to client.Do: validation, then the request
\* with the bearer token read from c.accessToken
Send(t) ==
  /\ th[t].pc = "send"
  /\ LET r == [th[t] EXCEPT !.tokOut = NoTokenOutcome, !.ckTok = 0,
                            !.ckExp = 0, !.bearer = accessToken]
     IN th' = [th EXCEPT ![t] =
          CASE th[t].cur = "gcg" ->
                 IF InvalidInput(th[t].name, th[t].realm)
                   THEN LeafFailed(th[t], Err("validation"))
                 ELSE [r EXCEPT !.pc = "wait_profile", !.nProfile = @ + 1,
                                !.url = ProfilePath(th[t].name, th[t].realm)]
            [] th[t].cur = "ggmi" ->
                 [r EXCEPT !.pc = "wait_roster", !.nRoster = @ + 1,
                           !.url = RosterPath(th[t].rslug, th[t].gname)]
            [] OTHER ->
                 [r EXCEPT !.pc = "wait_profile", !.nProfile = @ + 1,
                           !.url = ProfilePath(th[t].name, th[t].realm)]]
  /\ UNCHANGED <<accessToken, tokenExpiry, now, exchanges, lastGrant>>
  /\ UNCHANGED <<botVars, str>>

\* the character-profile request returns
ProfileResponse(t, o) ==
  /\ th[t].pc = "wait_profile"
  /\ th' = [th EXCEPT ![t] =
       IF th[t].cur = "gcg"
         THEN AfterCharacterGuild([th[t] EXCEPT !.profOut = o],
                                  CharacterGuildResult(o).guild,
                                  CharacterGuildResult(o).err)
       ELSE [th[t] EXCEPT !.pc = "done", !.profOut = o,
                          !.flag = CharacterExistsResult(o).flag,
                          !.err = CharacterExistsResult(o).err]]
  /\ UNCHANGED <<accessToken, tokenExpiry, now, exchanges, lastGrant>>
  /\ UNCHANGED <<botVars, str>>

\* the roster request returns
RosterResponse(t, o) ==
  /\ th[t].pc = "wait_roster"
  /\ th' = [th EXCEPT ![t] =
       AfterGuildMember([th[t] EXCEPT !.rosOut = o],
                        GuildMemberResult(th[t].name, o).member,
                        GuildMemberResult(th[t].name, o).err)]
  /\ UNCHANGED <<accessToken, tokenExpiry, now, exchanges, lastGrant>>
  /\ UNCHANGED <<botVars, str>>

\* the handler has used the result; the goroutine ends
Return(t) ==
  /\ th[t].pc = "done"
  /\ th' = [th EXCEPT ![t] = IdleThread]
  /\ UNCHANGED <<accessToken, tokenExpiry, now, exchanges, lastGrant>>
  /\ UNCHANGED <<botVars, str>>

\* time passes
Tick ==
  /\ now + TickStep <= MaxTicks * TickStep
  /\ now' = now + TickStep
  /\ UNCHANGED <<accessToken, tokenExpiry, exchanges, lastGrant, th>>
  /\ UNCHANGED <<botVars, str>>

\* one step of goroutine t: its operation among ops, the name and realm it
\* is given among ni and ri, the answers of the profile and roster endpoints
\* among po and ro
Step(t, ops, ni, ri, po, ro) ==
  \/ \E o \in ops, n \in ni, rl \in ri, g \in GuildIDInputs :
       Call(t, o, n, rl, g)
  \/ TokCheck(t)
  \/ \E o \in TokenOutcomes(exchanges) : TokResponse(t, o)
  \/ TokStore(t)
  \/ Send(t)
  \/ \E o \in po : ProfileResponse(t, o)
  \/ \E o \in ro : RosterResponse(t, o)
  \/ Return(t)

\* one handler at a time
Next ==
  \/ Step(1, Ops, NameInputs, RealmInputs, ProfileOutcomes, RosterOutcomes)
  \/ Tick

Spec == Init /\ [][Next]_vars

\* discordgo runs every handler in a goroutine of its own: the handlers of
\* two messages interleave
ConcOps == {"GetCharacterGuild", "GetGuildInfo"}
ConcProfile ==
  {o \in ProfileOutcomes :
     o.kind = "resp" /\ (o.status = StatusNotFound
                          \/ (o.json /\ o.guild.id = 12345))}
ConcRoster == {o \in RosterOutcomes : o.kind = "resp" /\ o.status = StatusNotFound}

ConcNext ==
  \/ \E t \in Threads :
       Step(t, ConcOps, {<<"A", "b">>}, {<<"A", " ", "b">>}, ConcProfile,
            ConcRoster)
  \/ Tick

ConcSpec == Init /\ [][ConcNext]_vars

\* ------------------------------------------------ the '!register' handler
\* what the profile endpoint can answer to CharacterExists
ExistsOutcomes ==
  {o \in ProfileOutcomes :
     o.json => o.guild \in {NoGuild, CHOOSE g \in GuildBodies :
                                       g.id = StandAndDeliverID /\ g.name = SnDName}}
  \cup
  {[kind |-> "resp", status |-> 204, json |-> FALSE, guild |-> NoGuild]}

\* the errors getAccessToken can return, and nil
TokenErrs == {ExchangeErr(o) : o \in TokenOutcomes(1)}

\* BlizzardClient.GetCharacterGuild as its caller sees it: te is what
\* getAccessToken returned, o the profile request's outcome
GetCharacterGuildCall(characterName, realm, te, o) ==
  IF te # NoErr THEN [guild |-> NilGuild, err |-> te]
  ELSE IF InvalidInput(characterName, realm)
    THEN [guild |-> NilGuild, err |-> Err("validation")]
  ELSE CharacterGuildResult(o)

IsCharacterInGuildCall(characterName, realm, guildID, te, o) ==
  IsCharacterInGuildResult(GetCharacterGuildCall(characterName, realm, te, o).guild,
                           GetCharacterGuildCall(characterName, realm, te, o).err,
                           guildID)

\* BlizzardClient.GetGuildMemberInfo as its caller sees it
GetGuildMemberInfoCall(characterName, te, o) ==
  IF te # NoErr THEN [member |-> NilMember, err |-> te]
  ELSE GuildMemberResult(characterName, o)

\* BlizzardClient.GetGuildInfo as its caller sees it: te and po are what
\* getAccessToken and the profile request gave GetCharacterGuild, te2 and
\* ro what getAccessToken and the roster request gave GetGuildMemberInfo.
\* rosErr is the error GetGuildMemberInfo returned, nil when it was not
\* called.
GetGuildInfoCall(characterName, realm, te, po, te2, ro) ==
  LET c == GetCharacterGuildCall(characterName, realm, te, po)
      g == GetGuildMemberInfoCall(characterName, te2, ro)
  IN IF c.err # NoErr
       THEN [info |-> NilInfo, err |-> c.err, rosErr |-> NoErr]
     ELSE IF c.guild.nil
       THEN [info |-> NilInfo, err |-> NoErr, rosErr |-> NoErr]
     ELSE [info |-> GuildInfoResult(c.guild.v, g.member, g.err),
           err |-> GuildInfoErr(g.err), rosErr |-> g.err]

CharacterExistsCall(characterName, realm, te, o) ==
  IF InvalidInput(characterName, realm)
    THEN [flag |-> FALSE, err |-> Err("validation")]
  ELSE IF te # NoErr THEN [flag |-> FALSE, err |-> te]
  ELSE CharacterExistsResult(o)

\* hasAnyRole, for a member that is not nil
HasAnyRole(memberRoles, roleIDs) ==
  \E i \in 1..Len(roleIDs) : roleIDs[i] \in memberRoles

\* updateMemberRoles with the community grant kept for guild members
NeedsCommunityRole_MembersOnly(memberRoles) ==
  h.isInGuild /\ cfg.community \notin memberRoles

\* updateMemberRoles granting the community role without looking
NeedsCommunityRole_Always(memberRoles) == TRUE

\* updateMemberRoles: !hasCommunityRole
NeedsCommunityRole(memberRoles) == cfg.community \notin memberRoles

\* updateMemberRoles granting the guild role to every guild member
NeedsGuildRole_IgnoreHeld(memberRoles, isInGuild) == isInGuild

\* updateMemberRoles: isInGuild && !hasAnyRole(member, cfg.GuildMemberRoleIDs)
NeedsGuildRole(memberRoles, isInGuild) ==
  isInGuild /\ ~HasAnyRole(memberRoles, cfg.guildRoles)

\* the handler ends having sent msgs, for the reason why
Ended(why, msgs) ==
  /\ h' = [h EXCEPT !.pc = "done", !.fail = why]
  /\ sent' = sent \o msgs

\* a "!register" message arrives; argsOk: it has three words
Register(u, c, sv, ch, argsOk) ==
  /\ h.pc = "idle"
  /\ IF argsOk
       THEN /\ h' = [IdleHandler EXCEPT !.pc = "exists", !.user = u,
                                        !.cmd = "register", !.character = c,
                                        !.server = sv, !.chan = ch]
            /\ sent' = <<>>
       ELSE /\ h' = [IdleHandler EXCEPT !.pc = "done", !.user = u,
                                        !.cmd = "register", !.chan = ch,
                                        !.fail = "usage"]
            /\ sent' = <<"usage">>
  /\ UNCHANGED <<admins, registrations, roles, cfg>>
  /\ UNCHANGED <<clientVars, str>>

\* the handler going on whatever CharacterExists answered
ExistsVerdict_Ignored(r) == "ok"

\* newMessage: the two returns after CharacterExists
ExistsVerdict(r) ==
  IF r.err # NoErr THEN "exists_error"
  ELSE IF ~r.flag THEN "not_found"
  ELSE "ok"

\* blizzardAPI.CharacterExists(characterName, server) and the two returns
RegExists(te, o) ==
  /\ h.pc = "exists"
  /\ LET r == CharacterExistsCall(h.character, h.server, te, o)
         g == [h EXCEPT !.tokErr = te, !.profOut = o]
     IN IF ExistsVerdict(r) # "ok"
          THEN /\ h' = [g EXCEPT !.pc = "done", !.fail = ExistsVerdict(r)]
               /\ sent' = sent \o <<ExistsVerdict(r)>>
        ELSE /\ h' = [g EXCEPT !.pc = "inguild", !.exists = r.flag]
             /\ UNCHANGED sent
  /\ UNCHANGED <<admins, registrations, roles, cfg>>
  /\ UNCHANGED <<clientVars, str>>

\* blizzardAPI.IsCharacterInGuild(characterName, server, 70395110)
RegInGuild(te, o) ==
  /\ h.pc = "inguild"
  /\ LET r == IsCharacterInGuildCall(h.character, h.server, StandAndDeliverID,
                                     te, o)
         g == [h EXCEPT !.guildTokErr = te, !.guildOut = o]
     IN IF r.err # NoErr
          THEN /\ h' = [g EXCEPT !.pc = "done", !.fail = "guild_error"]
               /\ sent' = sent \o <<"guild_error">>
        ELSE /\ h' = [g EXCEPT !.pc = "store", !.isInGuild = r.flag]
             /\ UNCHANGED sent
  /\ UNCHANGED <<admins, registrations, roles, cfg>>
  /\ UNCHANGED <<clientVars, str>>

\* RegisterCharacter losing the row
RegisterCharacter_NoRow(regs, u, c, sv) == regs

\* RegisterCharacter as a plain INSERT: the row of a registered user stays
RegisterCharacter_KeepsFirst(regs, u, c, sv) ==
  IF regs[u].has THEN regs
  ELSE [regs EXCEPT ![u] = [has |-> TRUE, character |-> c, server |-> sv]]

\* database.RegisterCharacter: REPLACE INTO characters
RegisterCharacter(regs, u, c, sv) ==
  [regs EXCEPT ![u] = [has |-> TRUE, character |-> c, server |-> sv]]

\* newMessage: the registration is written
RegStore(ok) ==
  /\ h.pc = "store"
  /\ IF ok
       THEN /\ registrations' =
                 RegisterCharacter(registrations, h.user, h.character,
                                   h.server)
            /\ h' = [h EXCEPT !.pc = "channel"]
            /\ UNCHANGED sent
       ELSE /\ Ended("store_error", <<"store_error">>)
            /\ UNCHANGED registrations
  /\ UNCHANGED <<admins, roles, cfg>>
  /\ UNCHANGED <<clientVars, str>>

\* the role update tried in every channel
InGuildChannel_Always(chan) == TRUE

\* newMessage: channel.GuildID != ""; a DM channel has no guild id
InGuildChannel(chan) == chan = "guild"

\* s.Channel(m.ChannelID), and the test of channel.GuildID
RegChannel(ok) ==
  /\ h.pc = "channel"
  /\ IF ~ok THEN Ended("channel_error", <<>>)
     ELSE /\ h' = [h EXCEPT !.pc = IF InGuildChannel(h.chan) THEN "member"
                                   ELSE "success"]
          /\ UNCHANGED sent
  /\ UNCHANGED <<admins, registrations, roles, cfg>>
  /\ UNCHANGED <<clientVars, str>>

\* s.GuildMember(channel.GuildID, m.Author.ID)
RegMember(ok) ==
  /\ h.pc = "member"
  /\ h' = IF ok THEN [h EXCEPT !.pc = "community", !.memberOk = TRUE,
                               !.member = roles[h.user]]
          ELSE [h EXCEPT !.pc = "success"]
  /\ UNCHANGED <<admins, registrations, roles, cfg, sent>>
  /\ UNCHANGED <<clientVars, str>>

\* a call that leaves the member with the new role alone
GuildMemberRoleAdd_Replace(rs, u, r) == [rs EXCEPT ![u] = {r}]

\* s.GuildMemberRoleAdd(guildID, userID, roleID), when it succeeds
GuildMemberRoleAdd(rs, u, r) == [rs EXCEPT ![u] = @ \cup {r}]

\* updateMemberRoles: if !characterExists { return nil }
ReconcileSkipped_Never(characterExists) == FALSE

ReconcileSkipped(characterExists) == ~characterExists

\* updateMemberRoles going on to the guild role after a failed grant
AfterCommunityGrant_GoesOn(ok) == "guildrole"

\* updateMemberRoles: if err != nil { return fmt.Errorf("failed to add
\* community role: %v", err) }, else on to the guild role
AfterCommunityGrant(ok) == IF ok THEN "guildrole" ELSE "roles_done"

\* updateMemberRoles, up to the community role; ok: GuildMemberRoleAdd
\* succeeds.  h.grants lists the roles GuildMemberRoleAdd was called with.
RegCommunity(ok) ==
  /\ h.pc = "community"
  /\ IF ReconcileSkipped(h.exists)
       THEN /\ h' = [h EXCEPT !.pc = "roles_done"]
            /\ UNCHANGED roles
     ELSE IF NeedsCommunityRole(h.member)
       THEN IF ok
              THEN /\ roles' = GuildMemberRoleAdd(roles, h.user, cfg.community)
                   /\ h' = [h EXCEPT !.pc = AfterCommunityGrant(ok),
                                     !.grants = Append(@, cfg.community)]
            ELSE /\ h' = [h EXCEPT !.pc = AfterCommunityGrant(ok),
                                   !.grants = Append(@, cfg.community),
                                   !.roleErr = "community"]
                 /\ UNCHANGED roles
     ELSE /\ h' = [h EXCEPT !.pc = "guildrole"]
          /\ UNCHANGED roles
  /\ UNCHANGED <<admins, registrations, cfg, sent>>
  /\ UNCHANGED <<clientVars, str>>

\* the last id of the list
EntryGuildRole_Last(roleIDs) == roleIDs[Len(roleIDs)]

\* cfg.GuildMemberRoleIDs[0]
EntryGuildRole(roleIDs) == roleIDs[1]

\* updateMemberRoles, the entry-level guild role; cfg.GuildMemberRoleIDs[0]
\* of an empty list is a run-time panic
RegGuildRole(ok) ==
  /\ h.pc = "guildrole"
  /\ IF NeedsGuildRole(h.member, h.isInGuild)
       THEN IF cfg.guildRoles = <<>>
              THEN /\ h' = [h EXCEPT !.pc = "panic", !.fail = "panic"]
                   /\ UNCHANGED roles
            ELSE IF ok
              THEN /\ roles' = GuildMemberRoleAdd(roles, h.user,
                                                  EntryGuildRole(cfg.guildRoles))
                   /\ h' = [h EXCEPT
                        !.pc = "roles_done",
                        !.grants = Append(@, EntryGuildRole(cfg.guildRoles))]
            ELSE /\ h' = [h EXCEPT
                        !.pc = "roles_done",
                        !.grants = Append(@, EntryGuildRole(cfg.guildRoles)),
                        !.roleErr = "guild"]
                 /\ UNCHANGED roles
     ELSE /\ h' = [h EXCEPT !.pc = "roles_done"]
          /\ UNCHANGED roles
  /\ UNCHANGED <<admins, registrations, cfg, sent>>
  /\ UNCHANGED <<clientVars, str>>

\* updateMemberRoles has returned to the '!register' handler
RegRolesDone ==
  /\ h.pc = "roles_done" /\ h.cmd = "register"
  /\ IF h.roleErr # "none"
       THEN Ended("role_error", <<"registered_role_error">>)
     ELSE /\ h' = [h EXCEPT !.pc = "success"]
          /\ UNCHANGED sent
  /\ UNCHANGED <<admins, registrations, roles, cfg>>
  /\ UNCHANGED <<clientVars, str>>

\* the success message
RegSuccess ==
  /\ h.pc = "success"
  /\ Ended("none", <<IF h.isInGuild THEN "success_member" ELSE "success">>)
  /\ UNCHANGED <<admins, registrations, roles, cfg>>
  /\ UNCHANGED <<clientVars, str>>

\* database.GetCharacter when the query succeeds: the row of the user, nil
\* on sql.ErrNoRows
GetCharacter(regs, u) ==
  IF regs[u].has THEN [nil |-> FALSE, v |-> regs[u]]
  ELSE [nil |-> TRUE, v |-> NoRegistration]

\* database.GetAllRegistrations: the rows of the characters table
GetAllRegistrations(regs) ==
  {[discord_username |-> u, character_name |-> regs[u].character,
    server |-> regs[u].server] : u \in {v \in Users : regs[v].has}}

\* "!whoami": database.GetCharacter and the answer; ok: the query succeeds.
\* h.character and h.server are the names the answer shows.
Whoami(u, ch, ok) ==
  /\ h.pc = "idle"
  /\ LET reg == GetCharacter(registrations, u)
     IN /\ h' = [IdleHandler EXCEPT
                   !.pc = "done", !.cmd = "whoami", !.user = u, !.chan = ch,
                   !.character = IF ok THEN reg.v.character ELSE Empty,
                   !.server = IF ok THEN reg.v.server ELSE Empty,
                   !.fail = IF ok THEN "none" ELSE "db_error"]
        /\ sent' = IF ~ok THEN <<"whoami_error">>
                   ELSE IF reg.nil THEN <<"not_registered">>
                   ELSE <<"whoami">>
  /\ UNCHANGED <<admins, registrations, roles, cfg>>
  /\ UNCHANGED <<clientVars, str>>

\* "!help", "!ping", "!bye": one ChannelMessageSend
SimpleCommands == {"help", "ping", "bye"}

SimpleCommand(u, ch, c) ==
  /\ h.pc = "idle"
  /\ h' = [IdleHandler EXCEPT !.pc = "done", !.cmd = c, !.user = u,
                              !.chan = ch]
  /\ sent' = <<c>>
  /\ UNCHANGED <<admins, registrations, roles, cfg>>
  /\ UNCHANGED <<clientVars, str>>

\* strings.Contains(err.Error(), "guild not found"): of the errors of the
\* client only GetGuildMemberInfo's "guild not found on realm" has the text
ContainsGuildNotFound(err) == err = Err("guild_not_found")

\* "!guild": the message for what GetGuildInfo returned
GuildReply(r) ==
  IF r.err # NoErr
    THEN IF ContainsGuildNotFound(r.err) THEN "could_not_find_guild"
         ELSE "guild_info_error"
  ELSE IF r.info.nil THEN "no_guild"
  ELSE "guild_info"

\* "!guild": database.GetCharacter, blizzardAPI.GetGuildInfo and the answer
Guild(u, ch, dbOk, te, po, te2, ro) ==
  /\ h.pc = "idle"
  /\ LET g == [IdleHandler EXCEPT !.pc = "done", !.cmd = "guild", !.user = u,
                                  !.chan = ch]
         r == GetGuildInfoCall(registrations[u].character,
                               registrations[u].server, te, po, te2, ro)
     IN IF ~dbOk
          THEN /\ h' = [g EXCEPT !.fail = "db_error"]
               /\ sent' = <<"guild_db_error">>
        ELSE IF ~registrations[u].has
          THEN /\ h' = g
               /\ sent' = <<"not_registered">>
        ELSE /\ h' = [g EXCEPT !.character = registrations[u].character,
                               !.server = registrations[u].server,
                               !.info = r.info, !.err = r.err,
                               !.rosErr = r.rosErr,
                               !.fail = IF r.err # NoErr THEN GuildReply(r)
                                        ELSE "none"]
             /\ sent' = <<GuildReply(r)>>
  /\ UNCHANGED <<admins, registrations, roles, cfg>>
  /\ UNCHANGED <<clientVars, str>>

\* "!checkguild <character> <realm>": blizzardAPI.IsCharacterInGuild with
\* the id of Stand and Deliver, and the answer; argsOk: three words or more
CheckGuildAnswer(u, ch, argsOk, c, sv, te, o) ==
  /\ h.pc = "idle"
  /\ LET g == [IdleHandler EXCEPT !.pc = "done", !.cmd = "checkguild",
                                  !.user = u, !.chan = ch]
         r == IsCharacterInGuildCall(c, sv, StandAndDeliverID, te, o)
     IN IF ~argsOk
          THEN /\ h' = [g EXCEPT !.fail = "usage"]
               /\ sent' = <<"usage">>
        ELSE IF r.err # NoErr
          THEN /\ h' = [g EXCEPT !.character = c, !.server = sv,
                                 !.err = r.err, !.fail = "checkguild_error"]
               /\ sent' = <<"checkguild_error">>
        ELSE /\ h' = [g EXCEPT !.character = c, !.server = sv,
                               !.flag = r.flag]
             /\ sent' = <<IF r.flag THEN "in_guild" ELSE "not_in_guild">>
  /\ UNCHANGED <<admins, roles, cfg>>
  /\ UNCHANGED <<clientVars, str>>

\* '!checkguild' storing the character it checked
CheckGuild_Registers(u, ch, argsOk, c, sv, te, o) ==
  /\ CheckGuildAnswer(u, ch, argsOk, c, sv, te, o)
  /\ registrations' = RegisterCharacter(registrations, u, c, sv)

\* "!checkguild" makes no call of the database
CheckGuild(u, ch, argsOk, c, sv, te, o) ==
  /\ CheckGuildAnswer(u, ch, argsOk, c, sv, te, o)
  /\ UNCHANGED registrations

\* newMessage returns; sent lists the messages of one handler
HandlerReturn ==
  /\ h.pc = "done"
  /\ h' = IdleHandler
  /\ sent' = <<>>
  /\ UNCHANGED <<admins, registrations, roles, cfg>>
  /\ UNCHANGED <<clientVars, str>>

\* the profile answers that make GetCharacterGuild return a guild
WithGuild == {o \in ProfileOutcomes : ~CharacterGuildResult(o).guild.nil}

\* what getAccessToken and the two endpoints answer in one call of
\* GetGuildInfo: <<token error, profile outcome, token error, roster
\* outcome>>; a request that is not sent has no outcome
GuildInfoAnswers ==
  {<<te, NoProfileOutcome, NoErr, NoRosterOutcome>> :
     te \in TokenErrs \ {NoErr}}
  \cup
  {<<NoErr, po, NoErr, NoRosterOutcome>> : po \in ProfileOutcomes \ WithGuild}
  \cup
  {<<NoErr, x[1], x[2], NoRosterOutcome>> :
     x \in WithGuild \X (TokenErrs \ {NoErr})}
  \cup
  {<<NoErr, x[1], NoErr, x[2]>> : x \in WithGuild \X RosterOutcomes}

\* the same for one call of IsCharacterInGuild
GuildCheckAnswers ==
  {<<te, NoProfileOutcome>> : te \in TokenErrs \ {NoErr}}
  \cup
  {<<NoErr, po>> : po \in ProfileOutcomes}

\* LoadConfig and Initialize, then the bot waits for messages
BotInit ==
  /\ ClientInit
  /\ str = NoString
  /\ admins = {}
  /\ \E c \in Policies : BotStart(c)
  /\ roles \in [Users -> InitialRoles]

BotNext ==
  \/ \E u \in Users, c \in CharacterWords, sv \in ServerWords,
        ch \in {"guild", "dm"}, argsOk \in BOOLEAN : Register(u, c, sv, ch, argsOk)
  \/ \E te \in TokenErrs, o \in ExistsOutcomes : RegExists(te, o)
  \/ \E te \in TokenErrs, o \in ProfileOutcomes : RegInGuild(te, o)
  \/ \E ok \in BOOLEAN : RegStore(ok)
  \/ \E ok \in BOOLEAN : RegChannel(ok)
  \/ \E ok \in BOOLEAN : RegMember(ok)
  \/ \E ok \in BOOLEAN : RegCommunity(ok)
  \/ \E ok \in BOOLEAN : RegGuildRole(ok)
  \/ RegRolesDone
  \/ RegSuccess
  \/ \E u \in Users, ch \in {"guild", "dm"}, ok \in BOOLEAN : Whoami(u, ch, ok)
  \/ \E u \in Users, ch \in {"guild", "dm"}, c \in SimpleCommands :
       SimpleCommand(u, ch, c)
  \/ /\ h.pc = "idle"
     /\ \E u \in Users, ch \in {"guild", "dm"}, dbOk \in BOOLEAN,
           x \in GuildInfoAnswers :
          Guild(u, ch, dbOk, x[1], x[2], x[3], x[4])
  \/ /\ h.pc = "idle"
     /\ \E u \in Users, ch \in {"guild", "dm"}, argsOk \in BOOLEAN,
           c \in CharacterWords, sv \in ServerWords,
           x \in GuildCheckAnswers :
          CheckGuild(u, ch, argsOk, c, sv, x[1], x[2])
  \/ HandlerReturn

BotSpec == BotInit /\ [][BotNext]_vars

\* ------------------------------------------------- handleAdminCommands
AdminCommands ==
  {"addadmin", "removeadmin", "register-user", "remove-user", "list-users",
   "admin-help", "admin-other"}

\* database.RemoveCharacterRegistration: DELETE FROM characters
RemoveCharacterRegistration(regs, u) == [regs EXCEPT ![u] = NoRegistration]

\* the command's own part of handleAdminCommands, for an admin in a DM:
\* the tables it leaves and the message it sends.  argsOk: the number of
\* words is the command's; dbOk: its statement succeeds
AdminEffect(c, argsOk, target, cw, sv, dbOk) ==
  CASE c \in {"addadmin", "removeadmin", "register-user", "remove-user"} ->
         IF ~argsOk
           THEN [admins |-> admins, regs |-> registrations,
                 msgs |-> <<"usage">>, wrote |-> FALSE]
         ELSE IF ~dbOk
           THEN [admins |-> admins, regs |-> registrations,
                 msgs |-> <<"db_error">>, wrote |-> FALSE]
         ELSE [admins |-> IF c = "addadmin" THEN admins \cup {target}
                          ELSE IF c = "removeadmin" THEN admins \ {target}
                          ELSE admins,
               regs |-> IF c = "register-user"
                          THEN RegisterCharacter(registrations, target, cw, sv)
                        ELSE IF c = "remove-user"
                          THEN RemoveCharacterRegistration(registrations, target)
                        ELSE registrations,
               msgs |-> <<c>>, wrote |-> TRUE]
    [] c = "list-users" ->
         [admins |-> admins, regs |-> registrations,
          msgs |-> IF ~dbOk THEN <<"db_error">>
                   ELSE IF \A u \in Users : ~registrations[u].has
                     THEN <<"no_users">>
                   ELSE <<"users">>,
          wrote |-> FALSE]
    [] c = "admin-help" ->
         [admins |-> admins, regs |-> registrations,
          msgs |-> <<"admin-help">>, wrote |-> FALSE]
    [] OTHER ->
         [admins |-> admins, regs |-> registrations, msgs |-> <<>>,
          wrote |-> FALSE]

\* handleAdminCommands for a message of u in the channel ch.  chanOk:
\* discord.Channel succeeds; adminOk: the query of database.IsAdmin succeeds.
\* For '!register-user' and '!remove-user' h.target is the user named,
\* h.prev their row before the call, h.character and h.server the names
\* given.
AdminCommand(u, ch, chanOk, adminOk, c, argsOk, target, cw, sv, dbOk) ==
  /\ h.pc = "idle"
  /\ LET g == [IdleHandler EXCEPT !.pc = "done", !.cmd = c, !.user = u,
                                  !.chan = ch, !.wasAdmin = u \in admins]
         e == AdminEffect(c, argsOk, target, cw, sv, dbOk)
     IN IF ~chanOk \/ ch # "dm"
          THEN /\ h' = [g EXCEPT !.fail = IF chanOk THEN "not_dm"
                                          ELSE "channel_error"]
               /\ sent' = <<>>
               /\ UNCHANGED <<admins, registrations>>
        ELSE IF ~adminOk
          THEN /\ h' = [g EXCEPT !.fail = "admin_check_error"]
               /\ sent' = <<"admin_check_error">>
               /\ UNCHANGED <<admins, registrations>>
        ELSE IF u \notin admins
          THEN /\ h' = [g EXCEPT !.fail = "not_admin"]
               /\ sent' = <<>>
               /\ UNCHANGED <<admins, registrations>>
        ELSE /\ h' = IF c \in {"register-user", "remove-user"} /\ argsOk
                       THEN [g EXCEPT
                               !.wrote = e.wrote, !.target = target,
                               !.prev = registrations[target],
                               !.character = IF c = "register-user" THEN cw
                                             ELSE Empty,
                               !.server = IF c = "register-user" THEN sv
                                          ELSE Empty]
                     ELSE [g EXCEPT !.wrote = e.wrote]
             /\ sent' = e.msgs
             /\ admins' = e.admins
             /\ registrations' = e.regs
  /\ UNCHANGED <<roles, cfg>>
  /\ UNCHANGED <<clientVars, str>>

\* the bot with some users in the admins table
AdminInit ==
  /\ ClientInit
  /\ str = NoString
  /\ admins \in SUBSET Users
  /\ BotStart([community |-> CommunityRole, guildRoles |-> <<"g1", "g2">>])
  /\ roles = [u \in Users |-> {}]

AdminNext ==
  \/ \E u \in Users, ch \in {"guild", "dm"}, chanOk \in BOOLEAN,
        adminOk \in BOOLEAN, c \in AdminCommands, argsOk \in BOOLEAN,
        target \in Users, cw \in CharacterWords, sv \in ServerWords,
        dbOk \in BOOLEAN :
       AdminCommand(u, ch, chanOk, adminOk, c, argsOk, target, cw, sv, dbOk)
  \/ \E u \in Users, ch \in {"guild", "dm"}, ok \in BOOLEAN : Whoami(u, ch, ok)
  \/ HandlerReturn

AdminSpec == AdminInit /\ [][AdminNext]_vars

\* ------------------------------------------- updateMemberRoles on its own
\* updateMemberRoles is called for the member u with the two flags
Reconcile(u, characterExists, isInGuild) ==
  /\ h.pc = "idle"
  /\ h' = [IdleHandler EXCEPT !.pc = "community", !.cmd = "reconcile",
                              !.user = u, !.chan = "guild",
                              !.exists = characterExists,
                              !.isInGuild = isInGuild,
                              !.memberOk = TRUE, !.member = roles[u],
                              !.last = h.last]
  /\ UNCHANGED <<admins, registrations, roles, cfg, sent>>
  /\ UNCHANGED <<clientVars, str>>

\* updateMemberRoles returns
ReconcileReturn ==
  /\ h.pc = "roles_done" /\ h.cmd = "reconcile"
  /\ h' = [IdleHandler EXCEPT
             !.last = [valid |-> TRUE, user |-> h.user, exists |-> h.exists,
                       isInGuild |-> h.isInGuild, roleErr |-> h.roleErr,
                       n |-> Len(h.grants)]]
  /\ UNCHANGED <<admins, registrations, roles, cfg, sent>>
  /\ UNCHANGED <<clientVars, str>>

\* every configuration, and every set of roles a member can hold
RolesInit ==
  /\ ClientInit
  /\ str = NoString
  /\ admins = {}
  /\ \E c \in Policies : BotStart(c)
  /\ roles \in [Users -> SUBSET AllRoles]

RolesNext ==
  \/ \E u \in Users, ex \in BOOLEAN, ig \in BOOLEAN : Reconcile(u, ex, ig)
  \/ \E ok \in BOOLEAN : RegCommunity(ok)
  \/ \E ok \in BOOLEAN : RegGuildRole(ok)
  \/ ReconcileReturn

RolesSpec == RolesInit /\ [][RolesNext]_vars

\* ------------------------------------------------ the slug conversion
\* a realm or guild name is converted for the URL
SlugOnce ==
  /\ str.pc = "in"
  /\ str' = [str EXCEPT !.pc = "once", !.once = Slug(str.s)]
  /\ UNCHANGED <<clientVars, botVars>>

\* the result is given to the conversion again
SlugTwice ==
  /\ str.pc = "once"
  /\ str' = [str EXCEPT !.pc = "twice", !.twice = Slug(str.once)]
  /\ UNCHANGED <<clientVars, botVars>>

\* every string of the alphabet
SlugInit ==
  /\ ClientInit
  /\ admins = {}
  /\ BotStart([community |-> CommunityRole, guildRoles |-> <<"g1", "g2">>])
  /\ roles = [u \in Users |-> {}]
  /\ str \in {[NoString EXCEPT !.pc = "in", !.s = x] : x \in Strings}

SlugNext == SlugOnce \/ SlugTwice

SlugSpec == SlugInit /\ [][SlugNext]_vars

\* =================================================================== claims

\* getAccessToken is between sending the exchange and returning
Refreshing(t) == th[t].pc \in {"tok_exchange", "tok_store"}

\* the operations that look a character up by name and realm
LookupOps ==
  {"GetCharacterGuild", "GetGuildInfo", "IsCharacterInGuild", "CharacterExists"}

\* the operations that run GetCharacterGuild
GuildLookupOps == {"GetCharacterGuild", "GetGuildInfo", "IsCharacterInGuild"}

\* C1: concurrent getAccessToken calls that find the token absent or expired
\* trigger one exchange between them: at most one refresh is in flight at a
\* time (the callers of that moment then all get its token).
C1_OneRefreshInFlight ==
  \A t, u \in Threads : (Refreshing(t) /\ Refreshing(u)) => t = u

\* C2: when the provider answers the exchange with a status that is not
\* 2xx, getAccessToken returns an error, whatever the body is.
C2_NonSuccessStatusFails ==
  \A t \in Threads :
    (th[t].tokOut.kind = "resp" /\ ~Is2xx(th[t].tokOut.status)
       /\ th[t].pc # "tok_exchange")
      => (th[t].pc # "tok_store" /\ th[t].tokErr # NoErr)

\* the exchange failed: no answer, a status that is not 2xx, or a body that
\* is not a token response
ExchangeFailed(o) ==
  \/ o.kind \in {"transport", "read"}
  \/ o.kind = "resp" /\ (~Is2xx(o.status) \/ ~o.json)

\* C3: with one handler at a time, when getAccessToken has returned from a
\* failed exchange (transport failure, non-2xx status, malformed body),
\* c.accessToken and c.tokenExpiry are what they were when it was called.
C3_FailedExchangeKeepsCache ==
  \A t \in Threads :
    (ExchangeFailed(th[t].tokOut) /\ ~Refreshing(t))
      => (accessToken = th[t].ckTok /\ tokenExpiry = th[t].ckExp)

\* C4: a call that finds a cached token with now < expiry sends no exchange;
\* and with one handler at a time, while now is before the last successful
\* exchange's time + declared lifetime - 60 s no further exchange is sent
\* (two calls in that window make one exchange in total).
C4_LiveTokenReused ==
  /\ \A t \in Threads : Refreshing(t) => ~th[t].sawLive
  /\ (lastGrant.tok # 0 /\ now < lastGrant.at + lastGrant.life - Margin)
       => exchanges = lastGrant.n

\* a second call took the cached token, later than the exchange that got it
C4_Witness ==
  /\ th[1].pc = "send" /\ th[1].fresh /\ th[1].nExch = 0
  /\ lastGrant.tok # 0 /\ now > lastGrant.at
  /\ now < lastGrant.at + lastGrant.life - Margin
  /\ exchanges = 1

\* C5: a lookup whose realm or character name is empty after trimming makes
\* no remote call (no token exchange, no profile request) and returns the
\* validation error.
C5_EmptyInputNoRemoteCall ==
  \A t \in Threads :
    (th[t].op \in LookupOps /\ InvalidInput(th[t].name, th[t].realm))
      => /\ th[t].nExch = 0 /\ th[t].nProfile = 0 /\ th[t].nRoster = 0
         /\ th[t].pc = "done" => th[t].err = Err("validation")

\* C6: in GetGuildInfo the membership lookup is entered, and the roster
\* endpoint called, only after GetCharacterGuild returned a guild; when it
\* returned absent or an error no roster request is made.
C6_GuildBeforeMembership ==
  \A t \in Threads :
    th[t].op = "GetGuildInfo" =>
      /\ (th[t].cur = "ggmi" \/ th[t].nRoster > 0)
           => (~th[t].guild.nil /\ th[t].nProfile = 1)
      /\ (th[t].pc = "done" /\ (th[t].guild.nil \/ th[t].err # NoErr))
           => (th[t].nRoster = 0 /\ th[t].cur = "gcg")

\* GetGuildInfo ended on a 404 for the character
C6_Witness ==
  /\ th[1].op = "GetGuildInfo" /\ th[1].pc = "done"
  /\ th[1].profOut.kind = "resp" /\ th[1].profOut.status = StatusNotFound
  /\ th[1].guild.nil /\ th[1].nRoster = 0

\* C7: on a 404 for the character profile, CharacterExists returns false
\* and GetCharacterGuild returns absent, both without error.
C7_NotFoundIsAbsent ==
  \A t \in Threads :
    (th[t].pc = "done" /\ th[t].profOut.kind = "resp"
       /\ th[t].profOut.status = StatusNotFound)
      => /\ th[t].err = NoErr
         /\ th[t].op = "CharacterExists" => ~th[t].flag
         /\ th[t].op \in GuildLookupOps => th[t].guild.nil

\* GetCharacterGuild returned on a 404
C7_Witness ==
  /\ th[1].op = "GetCharacterGuild" /\ th[1].pc = "done"
  /\ th[1].profOut.kind = "resp" /\ th[1].profOut.status = StatusNotFound
  /\ th[1].guild.nil /\ th[1].err = NoErr

\* C9: a character-profile response whose status is neither a success nor
\* 404 gives the API error with that status and no guild.
C9_OtherStatusIsApiError ==
  \A t \in Threads :
    (th[t].op \in GuildLookupOps /\ th[t].profOut.kind = "resp"
       /\ ~Is2xx(th[t].profOut.status)
       /\ th[t].profOut.status # StatusNotFound)
      => /\ th[t].pc = "done"
         /\ th[t].err = ApiErr(th[t].profOut.status)
         /\ th[t].guild.nil /\ th[t].info.nil /\ ~th[t].flag

\* GetCharacterGuild returned on a 403
C9_Witness ==
  /\ th[1].op = "GetCharacterGuild" /\ th[1].pc = "done"
  /\ th[1].profOut.kind = "resp" /\ th[1].profOut.status = 403
  /\ th[1].err = ApiErr(403)

\* C10: IsCharacterInGuild is false when GetCharacterGuild returned absent,
\* and otherwise true exactly when the guild's id is the id asked for,
\* whatever the guild's name.
C10_MembershipById ==
  \A t \in Threads :
    (th[t].op = "IsCharacterInGuild" /\ th[t].pc = "done"
       /\ th[t].err = NoErr)
      => (th[t].flag <=> (~th[t].guild.nil /\ th[t].guild.v.id = th[t].gid))

\* a guild of the right name and another id: not a member
C10_Witness ==
  /\ th[1].op = "IsCharacterInGuild" /\ th[1].pc = "done"
  /\ th[1].err = NoErr /\ ~th[1].guild.nil
  /\ th[1].guild.v.name = SnDName /\ th[1].guild.v.id # th[1].gid
  /\ th[1].gid = StandAndDeliverID /\ ~th[1].flag


\* the '!register' handler has asked whether the character exists and
\* the profile endpoint answered with a 2xx status
ProfileFound ==
  /\ h.cmd = "register" /\ h.fail # "usage"
  /\ h.pc \notin {"idle", "exists"}
  /\ h.tokErr = NoErr
  /\ h.profOut.kind = "resp" /\ Is2xx(h.profOut.status)

\* the membership lookup of the handler read a profile without a guild
GuildlessProfile ==
  /\ ProfileFound
  /\ h.pc \notin {"inguild"}
  /\ h.guildTokErr = NoErr
  /\ h.guildOut.kind = "resp" /\ h.guildOut.status = StatusOK
  /\ h.guildOut.json /\ h.guildOut.guild.name = Empty

\* C8: CharacterExists is true for every character whose profile lookup
\* answered 2xx, with or without a guild: the '!register' handler never
\* answers "not found" (nor an error of the existence check) for it; a
\* character whose profile carries no guild is not a guild member and is
\* not refused for that, and when its registration runs to the success
\* message in a guild channel with the member known, the registration is
\* stored and the user holds the community role.
C8_GuildlessCharacterExists ==
  /\ ProfileFound =>
       (h.exists /\ h.fail \notin {"not_found", "exists_error"})
  /\ GuildlessProfile =>
       (~h.isInGuild /\ h.fail \notin {"not_found", "exists_error",
                                        "guild_error"})
  /\ (GuildlessProfile /\ h.pc = "done" /\ h.fail = "none" /\ h.memberOk) =>
       /\ registrations[h.user] =
            [has |-> TRUE, character |-> h.character, server |-> h.server]
       /\ cfg.community \in roles[h.user]

\* a guildless character's registration ends with the success message and
\* the community role newly granted
C8_Witness ==
  /\ GuildlessProfile
  /\ h.profOut.json /\ h.profOut.guild = NoGuild
  /\ h.pc = "done" /\ h.fail = "none" /\ h.memberOk
  /\ cfg.community \notin h.member
  /\ cfg.community \in roles[h.user]
  /\ registrations[h.user].has
  /\ sent = <<"success">>

\* the character-profile request was answered 200 with a guild of empty name
EmptyNameGuild(t) ==
  /\ th[t].profOut.kind = "resp" /\ th[t].profOut.status = StatusOK
  /\ th[t].profOut.json /\ th[t].profOut.guild.name = Empty

\* C11: when the profile lookup succeeds and the embedded guild's name is
\* empty, GetCharacterGuild returns no guild and no error (and so GetGuildInfo
\* returns nothing and IsCharacterInGuild false).
C11_EmptyGuildNameIsAbsent ==
  \A t \in Threads :
    (th[t].op \in GuildLookupOps /\ EmptyNameGuild(t))
      => /\ th[t].pc = "done"
         /\ th[t].guild.nil /\ th[t].err = NoErr
         /\ th[t].info.nil /\ ~th[t].flag /\ th[t].nRoster = 0

\* GetCharacterGuild returned on a profile whose guild has an id but no name
C11_Witness ==
  /\ th[1].op = "GetCharacterGuild" /\ th[1].pc = "done"
  /\ EmptyNameGuild(1) /\ th[1].profOut.guild.id = StandAndDeliverID
  /\ th[1].guild.nil /\ th[1].err = NoErr

\* GetGuildMemberInfo, called by GetGuildInfo, has returned an error
MembershipFailed(t) ==
  /\ th[t].op = "GetGuildInfo" /\ th[t].cur = "ggmi" /\ th[t].pc = "done"
  /\ \/ th[t].tokErr # NoErr
     \/ th[t].rosOut.kind \in {"transport", "read"}
     \/ th[t].rosOut.kind = "resp"
          /\ (th[t].rosOut.status # StatusOK \/ ~th[t].rosOut.json)

\* C12: when GetCharacterGuild returned a guild and the membership lookup
\* fails, GetGuildInfo returns the guild's name and faction with rank -1 and
\* no error.
C12_RosterFailureDegrades ==
  \A t \in Threads :
    MembershipFailed(t)
      => /\ th[t].err = NoErr
         /\ ~th[t].guild.nil /\ ~th[t].info.nil
         /\ th[t].info.v.name = th[t].guild.v.name
         /\ th[t].info.v.faction = th[t].guild.v.faction
         /\ th[t].info.v.rank = UnknownRank

\* GetGuildInfo returned after the roster request was answered 404
C12_Witness ==
  /\ MembershipFailed(1)
  /\ th[1].rosOut.kind = "resp" /\ th[1].rosOut.status = StatusNotFound
  /\ ~th[1].info.nil /\ th[1].info.v.name = SnDName
  /\ th[1].info.v.faction = Alliance /\ th[1].info.v.rank = UnknownRank
  /\ th[1].err = NoErr

\* updateMemberRoles is running, or has just returned
InReconcile == h.cmd = "reconcile" /\ h.pc # "idle"

\* GuildMemberRoleAdd was called with the role r in this call
Requested(r) == \E i \in 1..Len(h.grants) : h.grants[i] = r

\* the configured guild role ids
GuildRoleIDs == {cfg.guildRoles[i] : i \in 1..Len(cfg.guildRoles)}

\* C13: when characterExists is false, updateMemberRoles calls
\* GuildMemberRoleAdd for no role and returns nil, whatever isInGuild and
\* the member's roles are.
C13_NoRolesWithoutCharacter ==
  (InReconcile /\ ~h.exists)
    => /\ h.grants = <<>> /\ h.roleErr = "none"
       /\ h.pc \in {"community", "roles_done"}
       /\ roles[h.user] = h.member

\* a guild member with no role, character not verified: nothing granted
C13_Witness ==
  /\ InReconcile /\ ~h.exists /\ h.isInGuild /\ h.member = {}
  /\ h.pc = "roles_done" /\ h.grants = <<>> /\ roles[h.user] = {}

\* C14: when characterExists is true, GuildMemberRoleAdd is called with the
\* community role exactly when the member does not hold it, and once at most.
C14_CommunityGrantWhenMissing ==
  (InReconcile /\ h.exists)
    => /\ h.pc = "community" => h.grants = <<>>
       /\ h.pc # "community" =>
            (Requested(cfg.community) <=> cfg.community \notin h.member)
       /\ \A i, j \in 1..Len(h.grants) :
            (h.grants[i] = cfg.community /\ h.grants[j] = cfg.community)
              => i = j

\* the member holds the community role already: only the guild role is asked
C14_Witness ==
  /\ InReconcile /\ h.exists /\ h.isInGuild /\ h.pc = "roles_done"
  /\ h.member = {cfg.community}
  /\ h.grants = <<"g1">>

SecondCall ==
  /\ InReconcile /\ h.last.valid /\ h.last.roleErr = "none"
  /\ h.last.user = h.user /\ h.last.exists = h.exists
  /\ h.last.isInGuild = h.isInGuild

\* C16: a call of updateMemberRoles that follows a successful call with
\* the same inputs, the member's roles being those the first call left,
\* calls GuildMemberRoleAdd for no role.
C16_ReconcileIdempotent ==
  SecondCall => (h.grants = <<>> /\ h.roleErr = "none" /\ h.pc # "panic")

\* the first call granted both roles, the second has returned
C16_Witness ==
  /\ SecondCall /\ h.last.n = 2 /\ h.exists /\ h.isInGuild
  /\ h.pc = "roles_done" /\ h.grants = <<>>
  /\ h.member = {cfg.community, "g1"}

\* C17: when updateMemberRoles fails in '!register', the registration
\* written before it is still in the table, and the one message sent says
\* that the character was registered and that updating roles failed.
C17_RoleFailureKeepsRegistration ==
  /\ (h.cmd = "register" /\ h.roleErr # "none" /\ h.pc = "done")
       => h.fail = "role_error"
  /\ h.fail = "role_error"
       => /\ registrations[h.user] =
               [has |-> TRUE, character |-> h.character, server |-> h.server]
          /\ sent = <<"registered_role_error">>

\* the guild-role grant failed after the community role was granted
C17_Witness ==
  /\ h.cmd = "register" /\ h.pc = "done" /\ h.fail = "role_error"
  /\ h.roleErr = "guild" /\ h.grants = <<cfg.community, "g1">>
  /\ registrations[h.user].has /\ cfg.community \in roles[h.user]
  /\ sent = <<"registered_role_error">>

\* the expiry the last successful exchange should have cached
GrantExpiry == lastGrant.at + lastGrant.life - Margin

\* C18: after a successful exchange at time t with declared lifetime L the
\* cached expiry is t + L - 60, and (one handler at a time) getAccessToken
\* takes the cached token exactly when now < t + L - 60.
C18_ExpiryIsLifetimeLessMargin ==
  /\ [](lastGrant.tok # 0 => tokenExpiry = GrantExpiry)
  /\ [][(th[1].pc = "tok_check" /\ th'[1].pc # "tok_check"
           /\ lastGrant.tok # 0)
          => (th'[1].pc = "send" <=> now < GrantExpiry)]_vars

\* at now = t + L - 60 exactly the token of a 180 s grant is no longer used
C18_Witness ==
  /\ lastGrant.tok # 0 /\ lastGrant.life = 3 * Margin
  /\ now = GrantExpiry /\ tokenExpiry = now
  /\ th[1].pc = "tok_exchange" /\ th[1].nExch = 1 /\ exchanges = 2

\* getAccessToken has returned an error to the operation, or the provider
\* refused the exchange
AcquisitionFailed(t) ==
  \/ th[t].tokErr # NoErr
  \/ ExchangeFailed(th[t].tokOut) /\ ~Refreshing(t)

\* C19: when token acquisition fails inside GetCharacterGuild or
\* GetGuildMemberInfo, the operation returns that error and sends no
\* character-profile or roster request.
C19_AuthFailureBlocksRequests ==
  \A t \in Threads :
    (th[t].op \in {"GetCharacterGuild", "GetGuildMemberInfo"}
       /\ AcquisitionFailed(t))
      => /\ th[t].pc = "done"
         /\ th[t].err # NoErr /\ th[t].err = th[t].tokErr
         /\ th[t].nProfile = 0 /\ th[t].nRoster = 0
         /\ th[t].guild.nil /\ th[t].member.nil

\* C20: for every string s of at most MaxLen characters of the alphabet,
\* converting the slug of s again gives the slug of s.
C20_SlugIdempotent ==
  str.pc = "twice" => (str.once = Slug(str.s) /\ str.twice = str.once)

\* " A b" became "a-b" and stayed "a-b"
C20_Witness ==
  /\ str.pc = "twice" /\ str.s = <<" ", "A", " ", "b">>
  /\ str.once = <<"a", "-", "b">> /\ str.twice = str.once

\* GetGuildMemberInfo has returned on a roster parsed from a 200 answer
RosterRead(t) ==
  /\ th[t].op = "GetGuildMemberInfo" /\ th[t].pc = "done"
  /\ th[t].rosOut.kind = "resp" /\ th[t].rosOut.status = StatusOK
  /\ th[t].rosOut.json

\* the positions of the roster whose name is the name asked for, ignoring
\* case
Matches(t) ==
  {i \in 1..Len(th[t].rosOut.members) :
     ToLower(th[t].rosOut.members[i].name) = ToLower(th[t].name)}

\* C21: GetGuildMemberInfo returns the first roster entry, in roster order,
\* whose name is the requested name ignoring case, and nil with no error
\* when there is none.
C21_FirstRosterMatch ==
  \A t \in Threads :
    RosterRead(t) =>
      /\ th[t].err = NoErr
      /\ Matches(t) = {} => th[t].member.nil
      /\ \A i \in Matches(t) :
           (\A j \in Matches(t) : i <= j)
             => /\ ~th[t].member.nil
                /\ th[t].member.v = th[t].rosOut.members[i]

\* "Ab" asked for, "ab" (rank 1) listed before "AB" (rank 2): rank 1
C21_Witness ==
  /\ RosterRead(1) /\ th[1].name = <<"A", "b">>
  /\ Matches(1) = {1, 2}
  /\ ~th[1].member.nil /\ th[1].member.v.rank = 1
  /\ th[1].member.v.name = <<"a", "b">>

\* C22: a roster answer of status 404 gives the 'guild not found' error,
\* every other status that is not 200 the API error with the status; the
\* two differ, and neither comes with a member.
C22_GuildNotFoundDistinct ==
  \A t \in Threads :
    (th[t].op = "GetGuildMemberInfo" /\ th[t].pc = "done"
       /\ th[t].rosOut.kind = "resp" /\ th[t].rosOut.status # StatusOK)
      => /\ th[t].member.nil
         /\ th[t].rosOut.status = StatusNotFound
              => th[t].err = Err("guild_not_found")
         /\ th[t].rosOut.status # StatusNotFound
              => /\ th[t].err = ApiErr(th[t].rosOut.status)
                 /\ th[t].err # Err("guild_not_found")

\* GetGuildMemberInfo returned on a 404
C22_Witness ==
  /\ th[1].op = "GetGuildMemberInfo" /\ th[1].pc = "done"
  /\ th[1].rosOut.kind = "resp" /\ th[1].rosOut.status = StatusNotFound
  /\ th[1].err = Err("guild_not_found") /\ th[1].member.nil

\* C23: the roster request of GetGuildInfo carries the guild's realm slug,
\* or the slug of the guild's realm name when the guild has no slug, never
\* the realm GetGuildInfo was called with.
C23_GuildRealmForRoster ==
  \A t \in Threads :
    (th[t].op = "GetGuildInfo" /\ th[t].nRoster > 0)
      => /\ ~th[t].guild.nil
         /\ th[t].url[1] =
              IF th[t].guild.v.realmSlug # Empty
                THEN th[t].guild.v.realmSlug
              ELSE Slug(th[t].guild.v.realmName)
         /\ th[t].url[2] = Slug(th[t].guild.v.name)

\* the guild's slug "ab" is sent, the realm asked for being "A b"
C23_Witness ==
  /\ th[1].op = "GetGuildInfo" /\ th[1].pc = "wait_roster"
  /\ th[1].realm = <<"A", " ", "b">>
  /\ th[1].guild.v.realmSlug = <<"a", "b">>
  /\ th[1].url = <<<<"a", "b">>, <<"s", "-", "d">>>>

\* CharacterExists answered true to the '!register' handler: a 2xx profile
\* and no token error
ExistsAnsweredTrue ==
  /\ h.cmd = "register" /\ h.exists /\ h.tokErr = NoErr
  /\ h.profOut.kind = "resp" /\ Is2xx(h.profOut.status)

\* IsCharacterInGuild returned to the handler without error: the profile
\* was read, or was not found
GuildCheckAnswered ==
  /\ h.guildTokErr = NoErr /\ h.guildOut.kind = "resp"
  /\ \/ h.guildOut.status = StatusNotFound
     \/ h.guildOut.status = StatusOK /\ h.guildOut.json

\* the '!register' handler ended on a failed check
CheckFailed(f) == f \in {"not_found", "exists_error", "guild_error"}

\* C24: '!register' writes the registration only after CharacterExists
\* returned true and IsCharacterInGuild returned without error; a handler
\* that ends on 'not found' or on an error of either check has left the
\* characters table and every member's roles as they were.
C24_RegisterOnlyAfterChecks ==
  /\ [](CheckFailed(h.fail) => (h.pc = "done" /\ h.grants = <<>>))
  /\ [][/\ registrations' # registrations
             => (h.pc = "store" /\ ExistsAnsweredTrue /\ GuildCheckAnswered)
        /\ roles' # roles
             => (ExistsAnsweredTrue /\ GuildCheckAnswered
                   /\ registrations[h.user].has)
        /\ (CheckFailed(h'.fail) /\ ~CheckFailed(h.fail))
             => (h.pc \in {"exists", "inguild"}
                   /\ registrations' = registrations /\ roles' = roles)]_vars

\* a second '!register' of a user, for a character that is not found, has
\* left the first registration in place
C24_Witness ==
  /\ h.cmd = "register" /\ h.pc = "done" /\ h.fail = "not_found"
  /\ h.profOut.kind = "resp" /\ h.profOut.status = StatusNotFound
  /\ registrations[h.user].has
  /\ registrations[h.user].character # h.character
  /\ sent = <<"not_found">>

\* the commands of C25, in their well-formed use
WellFormed ==
  h.cmd \in {"register", "whoami", "help", "ping", "bye"} /\ h.fail # "usage"

\* C25: a well-formed '!register', '!whoami', '!help', '!ping' or '!bye'
\* has sent exactly one message when newMessage returns, on every path.
C25_OneMessagePerCommand ==
  /\ Len(sent) <= 1
  /\ (h.pc = "done" /\ WellFormed) => Len(sent) = 1

\* a call that got a token and whose inputs are not empty once trimmed
Admitted(t) ==
  /\ th[t].tokErr = NoErr
  /\ Slug(th[t].realm) # Empty /\ NameLower(th[t].name) # Empty

\* C27: a GetCharacterGuild call that got a token and passed validation has
\* sent exactly one profile request when it returns, a GetGuildMemberInfo
\* call that got a token exactly one roster request; no call sends a
\* request twice, and the result returned is that of the call's own answer.
C27_OneRequestPerCall ==
  \A t \in Threads :
    /\ th[t].nProfile <= 1 /\ th[t].nRoster <= 1
    /\ (th[t].op = "GetCharacterGuild" /\ th[t].pc = "done" /\ Admitted(t))
         => /\ th[t].nProfile = 1 /\ th[t].nRoster = 0
            /\ th[t].guild = CharacterGuildResult(th[t].profOut).guild
            /\ th[t].err = CharacterGuildResult(th[t].profOut).err
    /\ (th[t].op = "GetGuildMemberInfo" /\ th[t].pc = "done"
          /\ th[t].tokErr = NoErr)
         => /\ th[t].nRoster = 1 /\ th[t].nProfile = 0
            /\ th[t].member =
                 GuildMemberResult(th[t].name, th[t].rosOut).member
            /\ th[t].err = GuildMemberResult(th[t].name, th[t].rosOut).err

\* a second GetCharacterGuild on the same client, its token taken from the
\* cache, sent its own request and returned the error of its own answer
C27_Witness ==
  /\ th[1].op = "GetCharacterGuild" /\ th[1].pc = "done" /\ Admitted(1)
  /\ th[1].fresh /\ exchanges = 1 /\ th[1].nExch = 0
  /\ th[1].nProfile = 1 /\ th[1].profOut.kind = "transport"
  /\ th[1].err = Err("transport")

\* C28: when getAccessToken returns nil after an exchange answered with a
\* success status, c.accessToken is not empty and c.tokenExpiry is later
\* than the time of the return.
C28_ReturnedTokenUsable ==
  \A t \in Threads :
    (th[t].pc = "send" /\ ~th[t].fresh /\ th[t].tokErr = NoErr
       /\ th[t].tokOut.kind = "resp" /\ Is2xx(th[t].tokOut.status))
      => (accessToken # 0 /\ lastGrant.at < tokenExpiry)

\* C29: updateMemberRoles ends without a run-time fault, whatever the
\* configuration.
C29_NoRuntimeFault == h.pc # "panic"

\* C30: no step of the bot takes a role from a member.
C30_RolesOnlyGrow ==
  [][\A u \in Users : roles[u] \subseteq roles'[u]]_vars

\* a member granted both roles by an earlier '!register' keeps them when a
\* later one finds no character
C30_Witness ==
  /\ h.cmd = "register" /\ h.pc = "done" /\ h.fail = "not_found"
  /\ registrations[h.user].has
  /\ roles[h.user] = {cfg.community, "g1"}

\* C32: a call of updateMemberRoles whose community-role grant failed
\* returns that error at once: GuildMemberRoleAdd was called for the
\* community role alone, no guild role was asked for or granted, and the
\* member's roles are those the call found.
C32_CommunityFailureStops ==
  (h.cmd \in {"reconcile", "register"} /\ h.roleErr = "community")
    => /\ h.pc \in {"roles_done", "done"}
       /\ h.grants = <<cfg.community>>
       /\ \A r \in GuildRoleIDs : ~Requested(r)
       /\ roles[h.user] = h.member

\* a guild member without any role, two guild roles configured: the
\* community grant failed and the call has returned
C32_Witness ==
  /\ InReconcile /\ h.exists /\ h.isInGuild /\ h.member = {}
  /\ cfg.guildRoles = <<"g1", "g2">>
  /\ h.roleErr = "community" /\ h.pc = "roles_done"
  /\ h.grants = <<cfg.community>> /\ roles[h.user] = {}

\* the '!register' handler is between s.GuildMember and the return of
\* updateMemberRoles
InRoleUpdate ==
  h.cmd = "register"
    /\ h.pc \in {"member", "community", "guildrole", "roles_done", "panic"}

\* C34: a '!register' sent in a direct message never looks the member up
\* and never calls GuildMemberRoleAdd; once s.Channel has answered, the
\* handler goes straight to the success message with the registration
\* stored.  The role update is reached in guild channels only.
C34_NoRoleUpdateInDM ==
  /\ InRoleUpdate => h.chan = "guild"
  /\ (h.cmd = "register" /\ h.chan = "dm")
       => /\ ~h.memberOk /\ h.grants = <<>> /\ h.roleErr = "none"
          /\ h.pc \in {"exists", "inguild", "store", "channel", "success",
                        "done"}
          /\ h.pc = "done"
               => h.fail \in {"usage", "exists_error", "not_found",
                              "guild_error", "store_error", "channel_error",
                              "none"}
          /\ (h.pc = "success" \/ (h.pc = "done" /\ h.fail = "none"))
               => registrations[h.user] =
                    [has |-> TRUE, character |-> h.character,
                     server |-> h.server]
          /\ (h.pc = "done" /\ h.fail = "none")
               => sent = <<IF h.isInGuild THEN "success_member"
                           ELSE "success">>

\* a Stand and Deliver member registers in a direct message: stored,
\* answered, and no role granted
C34_Witness ==
  /\ h.cmd = "register" /\ h.chan = "dm" /\ h.pc = "done"
  /\ h.fail = "none" /\ h.exists /\ h.isInGuild
  /\ registrations[h.user] =
       [has |-> TRUE, character |-> h.character, server |-> h.server]
  /\ sent = <<"success_member">>
  /\ ~h.memberOk /\ h.grants = <<>> /\ roles[h.user] = {}

\* C35: GetGuildInfo never returns an error with the text "guild not
\* found": an error of GetGuildMemberInfo, the 404 of the roster among
\* them, comes back as a GuildInfo of rank -1 and a nil error.  The
\* '!guild' handler therefore never sends its 'Could not find guild
\* information' reply.
C35_GuildNotFoundNeverReturned ==
  h.cmd = "guild"
    => /\ ~ContainsGuildNotFound(h.err)
       /\ sent # <<"could_not_find_guild">>
       /\ h.rosErr # NoErr
            => /\ h.err = NoErr /\ ~h.info.nil
               /\ h.info.v.rank = UnknownRank
               /\ sent = <<"guild_info">>

\* the roster of the character's guild was answered 404: '!guild' shows the
\* guild with an unknown rank
C35_Witness ==
  /\ h.cmd = "guild" /\ h.pc = "done"
  /\ ContainsGuildNotFound(h.rosErr)
  /\ h.err = NoErr /\ h.fail = "none"
  /\ ~h.info.nil /\ h.info.v.name = SnDName
  /\ h.info.v.rank = UnknownRank
  /\ sent = <<"guild_info">>

\* the commands that only answer
ReadOnlyCommands == {"whoami", "guild", "checkguild", "help", "ping", "bye"}

\* C33: '!whoami', '!guild', '!checkguild', '!help', '!ping' and '!bye'
\* leave the characters table and the roles of every member as they
\* were, and call GuildMemberRoleAdd for no role; a step that changes a
\* member's roles or calls GuildMemberRoleAdd is a step of '!register'.
C33_OnlyRegisterWrites ==
  /\ [](h.cmd \in ReadOnlyCommands
          => (h.pc = "done" /\ h.grants = <<>> /\ ~h.memberOk))
  /\ [][/\ (h.cmd \in ReadOnlyCommands \/ h'.cmd \in ReadOnlyCommands)
             => (registrations' = registrations /\ roles' = roles)
        /\ (roles' # roles \/ Len(h'.grants) > Len(h.grants))
             => (h.cmd = "register" /\ h'.cmd = "register")]_vars

\* a member who registered a guildless character asks '!checkguild' about
\* a Stand and Deliver character: the answer is yes, their registration
\* and their roles stay
C33_Witness ==
  /\ h.cmd = "checkguild" /\ h.pc = "done" /\ h.flag
  /\ sent = <<"in_guild">>
  /\ registrations[h.user].has
  /\ registrations[h.user].character # h.character
  /\ cfg.guildRoles = <<"g1", "g2">>
  /\ roles[h.user] = {cfg.community}

\* RegisterCharacter has just succeeded for u
JustRegistered(u) ==
  h.pc = "idle" /\ h'.cmd = "register-user" /\ h'.wrote /\ h'.target = u

\* RemoveCharacterRegistration has just succeeded for u
JustRemoved(u) ==
  h.pc = "idle" /\ h'.cmd = "remove-user" /\ h'.wrote /\ h'.target = u

\* C31: the table starts empty; after a RegisterCharacter for u,
\* GetCharacter(u) is the character and server of that call, after a
\* RemoveCharacterRegistration for u it is nil, and no other step changes
\* it: GetCharacter(u) is the last registration of u, or nil.  '!whoami'
\* answers with it, and the table has one row for a username at most.
C31_LastRegistrationWins ==
  /\ \A u \in Users : GetCharacter(registrations, u).nil
  /\ [][\A u \in Users :
          IF JustRegistered(u)
            THEN GetCharacter(registrations', u) =
                   [nil |-> FALSE,
                    v |-> [has |-> TRUE, character |-> h'.character,
                           server |-> h'.server]]
          ELSE IF JustRemoved(u)
            THEN GetCharacter(registrations', u).nil
          ELSE GetCharacter(registrations', u)
                 = GetCharacter(registrations, u)]_vars
  /\ []((h.cmd = "whoami" /\ h.pc = "done" /\ h.fail = "none")
          => IF GetCharacter(registrations, h.user).nil
               THEN sent = <<"not_registered">>
             ELSE /\ sent = <<"whoami">>
                  /\ h.character = registrations[h.user].character
                  /\ h.server = registrations[h.user].server)
  /\ [](\A u \in Users :
          Cardinality({r \in GetAllRegistrations(registrations) :
                         r.discord_username = u}) <= 1)

\* a user registered with one character is registered again with another:
\* the second is the one GetCharacter returns
C31_Witness ==
  /\ h.cmd = "register-user" /\ h.pc = "done" /\ h.wrote
  /\ h.prev.has /\ h.prev.character # h.character
  /\ ~GetCharacter(registrations, h.target).nil
  /\ GetCharacter(registrations, h.target).v.character = h.character
  /\ GetCharacter(registrations, h.target).v.server = h.server

\* C26: handleAdminCommands sends no message and writes no row unless the
\* message came in a DM channel and its sender is in the admins table.
C26_AdminOnlyInDMByAdmin ==
  (h.cmd \in AdminCommands /\ h.pc = "done"
     /\ ~(h.chan = "dm" /\ h.wasAdmin))
    => (sent = <<>> /\ ~h.wrote)

====
